---- MODULE Spec2Model ----
(***************************************************************************)
(* crtools: the clan dashboard builder of src/crtools/crtools.py.          *)
(*                                                                         *)
(* Three specifications:                                                   *)
(*   Spec        one run of build_dashboard, statement by statement, with  *)
(*               the temporary directory, the output path, the two HTTP    *)
(*               responses and every place an exception can be raised;     *)
(*   SpecWarlog  member_warlog applied to every member tag and war log of  *)
(*               the bounded input space, and as build_dashboard calls it; *)
(*   SpecDanger  member_danger applied to every member and participation   *)
(*               list of the bounded input space.                          *)
(***************************************************************************)
EXTENDS Integers, Sequences, FiniteSets, TLC

VARIABLES
    pc,               \* position of build_dashboard ("idle" in the function specifications)
    tempdir,          \* the local `tempdir` and the directory it names
    output,           \* the directory at output_path
    pre,              \* the directory at output_path as it was before the run
    paths,            \* the arguments logo_path, favicon_path, description_path
    api,              \* the remote API: the response it gives to each of the two requests
    http,             \* the number of GETs sent to each endpoint
    clan,             \* the local `clan` (mutated in place by the assembly loop)
    warlog,           \* the local `warlog` (mutated in place by member_warlog)
    clan_description, \* the local `clan_description`
    member_dash,      \* the local `member_dash`
    raised,           \* the exception propagating out of the try block, and where it was raised
    last_fs,          \* the last filesystem call the run made
    args,             \* function specifications: the arguments of the call
    result            \* function specifications: the value returned

vars == <<pc, tempdir, output, pre, paths, api, http, clan, warlog, clan_description,
          member_dash, raised, last_fs, args, result>>

pipeline_vars == <<pc, tempdir, output, pre, paths, api, http, clan, warlog, clan_description,
                   member_dash, raised, last_fs>>

-----------------------------------------------------------------------------
(* Bounds of the input space. *)

\* longest war log handed to member_warlog in SpecWarlog
MaxWars == 2
\* longest participation list handed to member_danger in SpecDanger
MaxEntries == 5
\* most members of the clan fetched by build_dashboard
MaxMembers == 2
\* longest war log fetched by build_dashboard
MaxFetchedWars == 2

Range(s) == {s[i] : i \in DOMAIN s}

\* sequences over S of length at most n
SeqUpTo(S, n) == UNION {[1..k -> S] : k \in 0..n}

-----------------------------------------------------------------------------
(* The data of the API. *)

\* player tags: opaque unique strings
Tags == <<"#A", "#B", "#C", "#D">>

\* collection-day and battle-day battle counts of a war participant
CollectionCounts == {0, 2, 3}
BattleCounts == {0, 1}

Participant(tag, cd, b) ==
    [tag |-> tag, collectionDayBattlesPlayed |-> cd, battlesPlayed |-> b]

Participants(tags) ==
    {Participant(t, cd, b) : t \in tags, cd \in CollectionCounts, b \in BattleCounts}

\* the participant lists of one war over the tags `tags`: at most one
\* participant per tag
ParticipantLists(tags) ==
    {ps \in SeqUpTo(Participants(tags), Cardinality(tags)) :
        \A i, j \in DOMAIN ps : i # j => ps[i].tag # ps[j].tag}

War(ps) == [createdDate |-> "20240115T103000.000Z", participants |-> ps]

-----------------------------------------------------------------------------
(* member_warlog, lines 68-86. *)

\* the cascade with its first two tests exchanged
status_bad_first(member) ==
    IF member.battlesPlayed = 0 THEN "bad"
    ELSE IF member.collectionDayBattlesPlayed = 0 THEN "na"
    ELSE IF member.collectionDayBattlesPlayed < 3 THEN "ok"
    ELSE "good"

\* lines 76-83: the status written to a matching participant
participant_status(member) ==
    IF member.collectionDayBattlesPlayed = 0 THEN "na"
    ELSE IF member.battlesPlayed = 0 THEN "bad"
    ELSE IF member.collectionDayBattlesPlayed < 3 THEN "ok"
    ELSE "good"

\* member['status'] = ...: the participant dict with the key 'status' set
with_status(member, s) ==
    [k \in DOMAIN member \cup {"status"} |-> IF k = "status" THEN s ELSE member[k]]

\* lines 73-84: the inner loop over war['participants'], from index i on.
\* Returns the loop's final `participation` and the participant list as the
\* loop leaves it (matching participants carry their status).
RECURSIVE scan_participants(_, _, _, _)
scan_participants(member_tag, participants, i, participation) ==
    IF i > Len(participants)
    THEN [participation |-> participation, participants |-> participants]
    ELSE IF participants[i].tag = member_tag
         THEN LET member == with_status(participants[i], participant_status(participants[i]))
              IN  scan_participants(member_tag, [participants EXCEPT ![i] = member],
                                    i + 1, member)
         ELSE scan_participants(member_tag, participants, i + 1, participation)

\* lines 71-86: the outer loop over the war log, from war i on. Returns the
\* list `member_warlog` and the war log as the call leaves it.
RECURSIVE scan_warlog(_, _, _, _)
scan_warlog(member_tag, wl, i, acc) ==
    IF i > Len(wl)
    THEN [member_warlog |-> acc, warlog |-> wl]
    ELSE LET r == scan_participants(member_tag, wl[i].participants, 1, [status |-> "na"])
         IN  scan_warlog(member_tag,
                         [wl EXCEPT ![i] = [wl[i] EXCEPT !.participants = r.participants]],
                         i + 1, Append(acc, r.participation))

member_warlog(member_tag, wl) == scan_warlog(member_tag, wl, 1, <<>>)

-----------------------------------------------------------------------------
(* member_danger, lines 88-104. *)

\* lines 89-97: the tally of the loop over member_warlog, from entry i on
RECURSIVE tally(_, _, _)
tally(member_warlog_list, i, counts) ==
    IF i > Len(member_warlog_list) THEN counts
    ELSE LET war == member_warlog_list[i]
         IN  tally(member_warlog_list, i + 1,
                   IF war.status = "good" THEN [counts EXCEPT !.good = @ + 1]
                   ELSE IF war.status = "ok" THEN [counts EXCEPT !.ok = @ + 1]
                   ELSE IF war.status = "bad" THEN [counts EXCEPT !.bad = @ + 1]
                   ELSE counts)

\* member_danger with an 'ok' war counted as a 'good' one
member_danger_counts_ok(member, member_warlog_list) ==
    LET c == tally(member_warlog_list, 1, [good |-> 0, ok |-> 0, bad |-> 0])
    IN  IF c.bad > c.good + c.ok THEN TRUE
        ELSE IF c.good + c.ok = 0 /\ member.donations = 0 THEN TRUE
        ELSE FALSE

\* lines 88-104
member_danger(member, member_warlog_list) ==
    LET c == tally(member_warlog_list, 1, [good |-> 0, ok |-> 0, bad |-> 0])
    IN  IF c.bad > c.good THEN TRUE
        ELSE IF c.good = 0 /\ member.donations = 0 THEN TRUE
        ELSE FALSE

-----------------------------------------------------------------------------
(* Text, JSON and files. *)

\* json.dumps(obj, indent=4): the text that encodes obj
json_dumps(obj) == [text |-> "json", of |-> obj]

\* json.loads(text) succeeds exactly on a text that encodes an object
is_json(text) == text.text = "json"
json_loads(text) == text.of

\* isinstance(obj, str)
is_str(obj) == "text" \in DOMAIN obj

\* a directory tree: the mapping from the relative paths in it to their content
EmptyTree == [n \in {} |-> ""]

put(files, name, content) ==
    [n \in DOMAIN files \cup {name} |-> IF n = name THEN content ELSE files[n]]

restrict(files, names) == [n \in names |-> files[n]]

\* lines 19-29: write_object_to_file into a directory tree
write_object_to_file(files, name, obj) ==
    put(files, name, IF is_str(obj) THEN obj ELSE json_dumps(obj))

\* a path argument that was not supplied (None)
NoPath == ""

\* os.path.expanduser
expanduser(p) ==
    CASE p = "~/logo.png"    -> "/home/user/logo.png"
      [] p = "~/desc.txt"    -> "/home/user/desc.txt"
      [] p = "~/gone.txt"    -> "/home/user/gone.txt"
      [] p = "~/site"        -> "/home/user/site"
      [] OTHER               -> p

\* the regular files of the machine outside the two directories of the run,
\* and the text of the description file
Files == {"/home/user/logo.png", "/srv/favicon.ico", "/home/user/desc.txt"}
isfile(p) == p \in Files
FileText(p) == <<"text of ", p>>

\* the bundled files of the package (os.path.dirname(__file__))
PackageStatic  == "crtools/static"
PackageLogo    == "crtools/static/crtools-logo.png"
PackageFavicon == "crtools/static/crtools-favicon.ico"

\* the relative paths build_dashboard stages
StagedNames == {"log", "static", "clan_logo.png", "favicon.ico",
                "log/clan.json", "log/warlog.json", "index.html"}

\* a set of relative paths that a tree can hold: a file's directory is in it
Closed(names) ==
    /\ "log/clan.json" \in names => "log" \in names
    /\ "log/warlog.json" \in names => "log" \in names

NoDir == [exists |-> FALSE, mode |-> "", files |-> EmptyTree]

-----------------------------------------------------------------------------
(* The responses of the API. *)

Roles == {"member", "elder", "coLeader", "leader"}

\* the i-th member of a clan: the first has donated nothing
Member(i, role) ==
    [tag |-> Tags[i], role |-> role, donations |-> IF i = 1 THEN 0 ELSE 25]

MemberLists(n) ==
    UNION {{[i \in 1..k |-> Member(i, r[i])] : r \in [1..k -> Roles]} : k \in 0..n}

ClanData(members) ==
    [tag |-> "#CLAN", name |-> "Clan", description |-> <<"description of the API">>,
     requiredTrophies |-> 1000, memberList |-> members]

\* wars of the fetched war logs: nobody took part; the first two members took
\* part; the second member and somebody who is not in the clan took part
FetchedWars ==
    {War(<<>>),
     War(<<Participant("#A", 3, 1), Participant("#B", 2, 0)>>),
     War(<<Participant("#B", 0, 1), Participant("#D", 2, 1)>>)}

WarlogData(wars) == [items |-> wars]

\* the JSON object the API sends with a status that is not 2xx
ErrorData == [reason |-> "accessDenied", message |-> "Invalid authorization"]

\* a body that is no JSON
NoJson == [text |-> "html"]

Response(status, body) == [status |-> status, body |-> body]

is_2xx(status) == status >= 200 /\ status < 300

unbound == [unbound |-> TRUE]

-----------------------------------------------------------------------------
(* build_dashboard, lines 127-214, one action per statement. *)

NoException == [exc |-> "none", at |-> "none"]

\* an exception leaves the try block: control goes to the finally block
Raise(at, exc) ==
    /\ pc' = "finally"
    /\ raised' = [exc |-> exc, at |-> at]

Goto(next) ==
    /\ pc' = next
    /\ UNCHANGED raised

\* what an action that only works in the temporary directory leaves alone
Locals == <<clan, warlog, clan_description, member_dash>>
Outside == <<output, pre, paths, api, http, args, result>>

\* a filesystem call `call` at position `here` that adds `name` to the
\* temporary directory, or raises OSError and adds nothing
Stage(here, next, call, name, content) ==
    /\ pc = here
    /\ last_fs' = call
    /\ \/ /\ tempdir' = [tempdir EXCEPT !.files = put(@, name, content)]
          /\ Goto(next)
       \/ /\ Raise(here, "OSError")
          /\ UNCHANGED tempdir
    /\ UNCHANGED <<Locals, Outside>>

\* line 136: tempdir = tempfile.mkdtemp("traasorg")
Mkdtemp ==
    /\ pc = "mkdtemp"
    /\ last_fs' = "mkdtemp"
    /\ \/ /\ tempdir' = [bound |-> TRUE, exists |-> TRUE, mode |-> "0700",
                         files |-> EmptyTree]
          /\ Goto("makedirs")
       \/ /\ Raise("mkdtemp", "OSError")
          /\ UNCHANGED tempdir
    /\ UNCHANGED <<Locals, Outside>>

\* lines 138-139: os.makedirs(log_path)
Makedirs == Stage("makedirs", "copy_static", "makedirs", "log", "dir")

\* the static assets copied to the output path instead of the temporary directory
CopyStaticToOutput ==
    /\ pc = "copy_static"
    /\ last_fs' = "copytree_static"
    /\ output' = [exists |-> TRUE, mode |-> output.mode,
                  files |-> put(output.files, "static", PackageStatic)]
    /\ Goto("copy_logo")
    /\ UNCHANGED <<tempdir, Locals, pre, paths, api, http, args, result>>

\* line 142: shutil.copytree(<package>/static, tempdir/static)
CopyStatic == Stage("copy_static", "copy_logo", "copytree_static", "static", PackageStatic)

\* lines 146-151
CopyLogo ==
    LET src == IF paths.logo_path # NoPath THEN expanduser(paths.logo_path)
               ELSE PackageLogo
    IN  Stage("copy_logo", "copy_favicon", "copyfile_logo", "clan_logo.png", src)

\* lines 155-160
CopyFavicon ==
    LET src == IF paths.favicon_path # NoPath THEN expanduser(paths.favicon_path)
               ELSE PackageFavicon
    IN  Stage("copy_favicon", "get_clan", "copyfile_favicon", "favicon.ico", src)

\* line 163 and get_clan, lines 31-43: one GET; r.status_code is never read
GetClan ==
    /\ pc = "get_clan"
    /\ http' = [http EXCEPT !.clan = @ + 1]
    /\ \/ /\ Raise("get_clan", "ConnectionError")
          /\ UNCHANGED clan
       \/ /\ ~is_json(api.clan.body)
          /\ Raise("get_clan", "JSONDecodeError")
          /\ UNCHANGED clan
       \/ /\ is_json(api.clan.body)
          /\ clan' = json_loads(api.clan.body)
          /\ Goto("log_clan")
    /\ UNCHANGED <<tempdir, output, pre, paths, api, warlog, clan_description,
                   member_dash, last_fs, args, result>>

\* line 164
LogClan ==
    /\ pc = "log_clan"
    /\ last_fs' = "write_clan_json"
    /\ \/ /\ tempdir' = [tempdir EXCEPT !.files =
                            write_object_to_file(@, "log/clan.json", json_dumps(clan))]
          /\ Goto("description")
       \/ /\ Raise("log_clan", "OSError")
          /\ UNCHANGED tempdir
    /\ UNCHANGED <<Locals, Outside>>

\* line 173: "ERROR: File '{}' does not exist.".format(description_path)
missing_file_message(p) == <<"ERROR: File '", p, "' does not exist.">>

\* a description path that names no file raises instead of giving the message
ResolveDescriptionStrict ==
    /\ pc = "description"
    /\ "description" \in DOMAIN clan
    /\ IF paths.description_path = NoPath
       THEN /\ clan_description' = clan.description
            /\ Goto("get_warlog")
            /\ UNCHANGED last_fs
       ELSE /\ last_fs' = "read_description"
            /\ IF isfile(expanduser(paths.description_path))
               THEN /\ clan_description' = FileText(expanduser(paths.description_path))
                    /\ Goto("get_warlog")
               ELSE /\ Raise("description", "OSError")
                    /\ UNCHANGED clan_description
    /\ UNCHANGED <<tempdir, clan, warlog, member_dash, Outside>>

\* lines 166-173
ResolveDescription ==
    /\ pc = "description"
    /\ \/ /\ "description" \notin DOMAIN clan
          /\ Raise("description", "KeyError")
          /\ UNCHANGED <<clan_description, last_fs>>
       \/ /\ "description" \in DOMAIN clan
          /\ paths.description_path = NoPath
          /\ clan_description' = clan.description
          /\ Goto("get_warlog")
          /\ UNCHANGED last_fs
       \/ /\ "description" \in DOMAIN clan
          /\ paths.description_path # NoPath
          /\ LET description_path == expanduser(paths.description_path)
             IN  IF isfile(description_path)
                 THEN /\ last_fs' = "read_description"
                      /\ \/ /\ clan_description' = FileText(description_path)
                            /\ Goto("get_warlog")
                         \/ /\ Raise("description", "OSError")
                            /\ UNCHANGED clan_description
                 ELSE /\ last_fs' = "isfile_description"
                      /\ clan_description' = missing_file_message(description_path)
                      /\ Goto("get_warlog")
    /\ UNCHANGED <<tempdir, clan, warlog, member_dash, Outside>>

\* line 176 and get_warlog, lines 45-57: one GET; r.status_code is never read
GetWarlog ==
    /\ pc = "get_warlog"
    /\ http' = [http EXCEPT !.warlog = @ + 1]
    /\ \/ /\ Raise("get_warlog", "ConnectionError")
          /\ UNCHANGED warlog
       \/ /\ ~is_json(api.warlog.body)
          /\ Raise("get_warlog", "JSONDecodeError")
          /\ UNCHANGED warlog
       \/ /\ is_json(api.warlog.body)
          /\ "items" \notin DOMAIN json_loads(api.warlog.body)
          /\ Raise("get_warlog", "KeyError")
          /\ UNCHANGED warlog
       \/ /\ is_json(api.warlog.body)
          /\ "items" \in DOMAIN json_loads(api.warlog.body)
          /\ warlog' = json_loads(api.warlog.body).items
          /\ Goto("log_warlog")
    /\ UNCHANGED <<tempdir, output, pre, paths, api, clan, clan_description,
                   member_dash, last_fs, args, result>>

\* line 177
LogWarlog ==
    /\ pc = "log_warlog"
    /\ last_fs' = "write_warlog_json"
    /\ \/ /\ tempdir' = [tempdir EXCEPT !.files =
                            write_object_to_file(@, "log/warlog.json", json_dumps(warlog))]
          /\ Goto("assemble")
       \/ /\ Raise("log_warlog", "OSError")
          /\ UNCHANGED tempdir
    /\ UNCHANGED <<Locals, Outside>>

\* the display role first, then the leadership flag from the rewritten role
set_leadership_after_rewrite(member_row) ==
    LET role == IF member_row.role = "coLeader" THEN "co-leader" ELSE member_row.role
    IN  [k \in DOMAIN member_row \cup {"leadership"} |->
            CASE k = "leadership" -> (role = "leader" \/ role = "coLeader")
              [] k = "role"       -> role
              [] OTHER            -> member_row[k]]

\* lines 185-190: the leadership flag, then the display role
set_leadership_and_role(member_row) ==
    LET leadership == member_row.role = "leader" \/ member_row.role = "coLeader"
    IN  [k \in DOMAIN member_row \cup {"leadership"} |->
            CASE k = "leadership" -> leadership
              [] k = "role"       -> IF member_row.role = "coLeader" THEN "co-leader"
                                     ELSE member_row.role
              [] OTHER            -> member_row[k]]

\* lines 182-190: one iteration of the assembly loop on `member`. Returns the
\* member dict as the iteration leaves it (member_row is the same dict) and the
\* war log as member_warlog leaves it.
assemble_member(member, wl) ==
    LET r == member_warlog(member.tag, wl)
        with_warlog == [k \in DOMAIN member \cup {"warlog"} |->
                           IF k = "warlog" THEN r.member_warlog ELSE member[k]]
        with_danger == [k \in DOMAIN with_warlog \cup {"danger"} |->
                           IF k = "danger" THEN member_danger(with_warlog, with_warlog.warlog)
                           ELSE with_warlog[k]]
    IN  [member |-> set_leadership_and_role(with_danger), warlog |-> r.warlog]

\* lines 181-191: the next iteration of `for member in clan['memberList']`
AssembleMember ==
    /\ pc = "assemble"
    /\ Len(member_dash) < Len(clan.memberList)
    /\ LET i == Len(member_dash) + 1
           r == assemble_member(clan.memberList[i], warlog)
       IN  /\ clan' = [clan EXCEPT !.memberList[i] = r.member]
           /\ warlog' = r.warlog
           /\ member_dash' = Append(member_dash, r.member)
    /\ UNCHANGED <<pc, raised, tempdir, clan_description, last_fs, Outside>>

\* lines 59-65: strptime(createdDate.split('.')[0], '%Y%m%dT%H%M%S').strftime("%m-%d")
date_label(createdDate) ==
    CASE createdDate = "20240115T103000.000Z" -> "01-15"
      [] OTHER -> "ValueError"

warlog_dates(wl) == [i \in 1..Len(wl) |-> date_label(wl[i].createdDate)]

\* lines 106-125 and 198-200: the page rendered from the values handed to the templates
render_dashboard(members, clan_name, clan_id, description, clan_min_trophies, clan_stats, war_dates) ==
    [text |-> "html",
     members |-> members, clan_name |-> clan_name, clan_id |-> clan_id,
     clan_description |-> description, min_trophies |-> clan_min_trophies,
     clan_stats |-> clan_stats, war_dates |-> war_dates]

dashboard_html ==
    render_dashboard(member_dash, clan.name, clan.tag, clan_description,
                     clan.requiredTrophies, [context |-> clan], warlog_dates(warlog))

\* lines 193-200: the loop is over; the templates are loaded and rendered
Render ==
    /\ pc = "assemble"
    /\ Len(member_dash) = Len(clan.memberList)
    /\ last_fs' = "get_template"
    /\ \/ Goto("write_index")
       \/ Raise("render", "TemplateError")
    /\ UNCHANGED <<tempdir, Locals, Outside>>

\* the two logs written again, from the objects as the loop left them
WriteIndexAndLogs ==
    /\ pc = "write_index"
    /\ last_fs' = "write_index_html"
    /\ tempdir' = [tempdir EXCEPT !.files =
           write_object_to_file(
               write_object_to_file(
                   write_object_to_file(@, "log/clan.json", json_dumps(clan)),
                   "log/warlog.json", json_dumps(warlog)),
               "index.html", dashboard_html)]
    /\ Goto("publish")
    /\ UNCHANGED <<Locals, Outside>>

\* line 201
WriteIndex ==
    /\ pc = "write_index"
    /\ last_fs' = "write_index_html"
    /\ \/ /\ tempdir' = [tempdir EXCEPT !.files =
                            write_object_to_file(@, "index.html", dashboard_html)]
          /\ Goto("publish")
       \/ /\ Raise("write_index", "OSError")
          /\ UNCHANGED tempdir
    /\ UNCHANGED <<Locals, Outside>>

\* lines 205-206: os.path.exists(os.path.expanduser(output_path))
CheckOutput ==
    /\ pc = "publish"
    /\ last_fs' = "exists_output"
    /\ Goto(IF output.exists THEN "copystat" ELSE "copytree")
    /\ UNCHANGED <<tempdir, Locals, Outside>>

\* line 207: shutil.copystat(output_path, tempdir)
Copystat ==
    /\ pc = "copystat"
    /\ last_fs' = "copystat"
    /\ \/ /\ tempdir' = [tempdir EXCEPT !.mode = output.mode]
          /\ Goto("rmtree_output")
       \/ /\ Raise("copystat", "OSError")
          /\ UNCHANGED tempdir
    /\ UNCHANGED <<Locals, Outside>>

\* line 208: shutil.rmtree(output_path). It removes the entries one by one and
\* raises at the first it cannot remove.
RmtreeOutput ==
    /\ pc = "rmtree_output"
    /\ last_fs' = "rmtree_output"
    /\ \/ /\ output' = NoDir
          /\ Goto("copytree")
       \/ /\ \E kept \in SUBSET DOMAIN output.files :
                output' = [output EXCEPT !.files = restrict(@, kept)]
          /\ Raise("rmtree_output", "OSError")
    /\ UNCHANGED <<tempdir, Locals, pre, paths, api, http, args, result>>

\* the tree published without its log directory
CopytreeWithoutLog ==
    /\ pc = "copytree"
    /\ last_fs' = "copytree_output"
    /\ output' = [exists |-> TRUE, mode |-> tempdir.mode,
                  files |-> restrict(tempdir.files,
                                     DOMAIN tempdir.files \
                                        {"log", "log/clan.json", "log/warlog.json"})]
    /\ Goto("finally")
    /\ UNCHANGED <<tempdir, Locals, pre, paths, api, http, args, result>>

\* line 211: shutil.copytree(tempdir, output_path). It creates output_path,
\* copies the entries it can, in the order the directory lists them, then the
\* directory's metadata, and raises if creating the directory or copying an
\* entry failed.
Copytree ==
    /\ pc = "copytree"
    /\ last_fs' = "copytree_output"
    /\ \/ /\ output' = [exists |-> TRUE, mode |-> tempdir.mode, files |-> tempdir.files]
          /\ Goto("finally")
       \/ /\ UNCHANGED output
          /\ Raise("copytree", "OSError")
       \/ /\ \E copied \in SUBSET DOMAIN tempdir.files :
                /\ copied # DOMAIN tempdir.files
                /\ Closed(copied)
                /\ output' = [exists |-> TRUE, mode |-> tempdir.mode,
                              files |-> restrict(tempdir.files, copied)]
          /\ Raise("copytree", "OSError")
    /\ UNCHANGED <<tempdir, Locals, pre, paths, api, http, args, result>>

\* the temporary directory removed at the end of the try block only
FinallyOnSuccessOnly ==
    /\ pc = "finally"
    /\ pc' = "done"
    /\ IF raised = NoException
       THEN /\ tempdir' = [tempdir EXCEPT !.exists = FALSE, !.files = EmptyTree]
            /\ last_fs' = "rmtree_tempdir"
       ELSE UNCHANGED <<tempdir, last_fs>>
    /\ UNCHANGED <<raised, Locals, Outside>>

\* lines 212-214: finally: shutil.rmtree(tempdir)
Finally ==
    /\ pc = "finally"
    /\ pc' = "done"
    /\ IF tempdir.bound
       THEN /\ tempdir' = [tempdir EXCEPT !.exists = FALSE, !.files = EmptyTree]
            /\ last_fs' = "rmtree_tempdir"
            /\ UNCHANGED raised
       ELSE /\ raised' = [exc |-> "UnboundLocalError", at |-> "finally"]
            /\ UNCHANGED <<tempdir, last_fs>>
    /\ UNCHANGED <<Locals, Outside>>

-----------------------------------------------------------------------------
(* The runs of build_dashboard. *)

NoTemp == [bound |-> FALSE, exists |-> FALSE, mode |-> "", files |-> EmptyTree]

\* the output of an earlier run, with a page the new run does not produce
OldOutput ==
    [exists |-> TRUE, mode |-> "0750",
     files |-> put(put(EmptyTree, "stale.html", "page of an earlier version"),
                   "index.html",
                   render_dashboard(<<>>, "Clan", "#CLAN", <<"earlier description">>,
                                    1000, [context |-> ClanData(<<>>)], <<>>))]

PathArgs ==
    [logo_path : {NoPath, "~/logo.png"},
     favicon_path : {NoPath, "/srv/favicon.ico"},
     description_path : {NoPath, "~/desc.txt", "~/gone.txt", "/srv/none.txt"}]

DefaultPaths ==
    [logo_path |-> NoPath, favicon_path |-> NoPath, description_path |-> NoPath]

\* the answers of the API to the clan request: the clan with status 200, the
\* error object with status 403, and a body that is no JSON with either
ClanResponses ==
    {Response(200, json_dumps(ClanData(<<Member(1, "coLeader"), Member(2, "member")>>))),
     Response(403, json_dumps(ErrorData)),
     Response(200, NoJson),
     Response(403, NoJson)}

\* the answers of the API to the war log request, likewise
WarlogResponses ==
    {Response(200, json_dumps(WarlogData(<<War(<<Participant("#A", 3, 1),
                                                 Participant("#B", 2, 0)>>)>>))),
     Response(403, json_dumps(ErrorData)),
     Response(200, NoJson),
     Response(403, NoJson)}

\* every clan and every war log of the bounds, sent with status 200
ClanAnswers ==
    {Response(200, json_dumps(ClanData(ms))) : ms \in MemberLists(MaxMembers)}

WarlogAnswers ==
    {Response(200, json_dumps(WarlogData(wl))) : wl \in SeqUpTo(FetchedWars, MaxFetchedWars)}

IdleFunctions ==
    /\ args = unbound
    /\ result = unbound

Start ==
    /\ pc = "mkdtemp"
    /\ tempdir = NoTemp
    /\ output = pre
    /\ http = [clan |-> 0, warlog |-> 0]
    /\ clan = unbound
    /\ warlog = <<>>
    /\ clan_description = <<>>
    /\ member_dash = <<>>
    /\ raised = NoException
    /\ last_fs = "none"
    /\ IdleFunctions

\* every environment of the run, on one clan and one war log
EnvironmentRuns ==
    /\ pre \in {NoDir, OldOutput}
    /\ paths \in PathArgs
    /\ api \in [clan : ClanResponses, warlog : WarlogResponses]
    /\ Start

\* every clan and war log of the bounds, in one environment
DataRuns ==
    /\ pre = OldOutput
    /\ paths = DefaultPaths
    /\ api \in [clan : ClanAnswers, warlog : WarlogAnswers]
    /\ Start

Init == EnvironmentRuns \/ DataRuns

Next ==
    \/ Mkdtemp
    \/ Makedirs
    \/ CopyStatic
    \/ CopyLogo
    \/ CopyFavicon
    \/ GetClan
    \/ LogClan
    \/ ResolveDescription
    \/ GetWarlog
    \/ LogWarlog
    \/ AssembleMember
    \/ Render
    \/ WriteIndex
    \/ CheckOutput
    \/ Copystat
    \/ RmtreeOutput
    \/ Copytree
    \/ Finally

Spec == Init /\ [][Next]_vars

-----------------------------------------------------------------------------
(* The analyzer functions on their own. *)

IdleRun ==
    /\ pc = "idle"
    /\ tempdir = NoTemp
    /\ output = NoDir
    /\ pre = NoDir
    /\ paths = DefaultPaths
    /\ api = unbound
    /\ http = [clan |-> 0, warlog |-> 0]
    /\ clan = unbound
    /\ warlog = <<>>
    /\ clan_description = <<>>
    /\ member_dash = <<>>
    /\ raised = NoException
    /\ last_fs = "none"

\* the wars in which "#A" and "#B" each took part or not, with every count
Wars == {War(ps) : ps \in {q \in ParticipantLists({"#A", "#B"}) :
                              Len(q) = 2 => q[1].tag = "#A"}}

InitWarlog ==
    /\ IdleRun
    /\ args \in [member_tag : {"#A", "#B", "#C"}, warlog : SeqUpTo(Wars, MaxWars)]
    /\ result = unbound

\* result = member_warlog(member_tag, warlog); the war log is left as the call mutated it
CallMemberWarlog ==
    /\ pc = "idle"
    /\ result = unbound
    /\ LET r == member_warlog(args.member_tag, args.warlog)
       IN  /\ result' = [value |-> r.member_warlog]
           /\ args' = [args EXCEPT !.warlog = r.warlog]
    /\ UNCHANGED pipeline_vars

\* member_warlog on its own, and as the assembly loop of build_dashboard calls it
NextWarlog == CallMemberWarlog \/ Next

SpecWarlog == (InitWarlog \/ DataRuns) /\ [][NextWarlog]_vars

StatusValues == {"na", "bad", "ok", "good"}

Donations == {0, 5, 100}

InitDanger ==
    /\ IdleRun
    /\ args \in [member : [donations : Donations],
                 member_warlog : SeqUpTo([status : StatusValues], MaxEntries)]
    /\ result = unbound

\* result = member_danger(member, member_warlog)
CallMemberDanger ==
    /\ pc = "idle"
    /\ result = unbound
    /\ result' = [value |-> member_danger(args.member, args.member_warlog)]
    /\ UNCHANGED <<args, pipeline_vars>>

NextDanger == CallMemberDanger

SpecDanger == InitDanger /\ [][NextDanger]_vars

-----------------------------------------------------------------------------
(* Properties of build_dashboard. *)

\* the places of steps 1 to 5 where the run can raise
StagingSteps ==
    {"mkdtemp", "makedirs", "copy_static", "copy_logo", "copy_favicon", "get_clan",
     "log_clan", "description", "get_warlog", "log_warlog", "render", "write_index"}

\* the places of step 6 where the run can raise
PublishSteps == {"copystat", "rmtree_output", "copytree"}

\* the filesystem calls on the output path
OutputCalls == {"exists_output", "copystat", "rmtree_output", "copytree_output"}

Aborted == pc = "done" /\ raised # NoException
Succeeded == pc = "done" /\ raised = NoException

\* the objects the API sent, as json.loads returns them
RawClan == json_loads(api.clan.body)
RawWarlog == json_loads(api.warlog.body).items

CompleteTree(dir) == dir.exists /\ DOMAIN dir.files = StagedNames

\* C1: a run aborted by an exception of steps 2-6, the publish step included,
\* ends with the output path holding its complete content of before the run
\* or a complete newly staged tree.
C1_AbortedRunNeverPartial ==
    (Aborted /\ raised.at \in (StagingSteps \cup PublishSteps) \ {"mkdtemp", "makedirs"})
        => (output = pre \/ CompleteTree(output))

C7_OutputIsStagedTree ==
    Succeeded =>
        /\ output.exists
        /\ DOMAIN output.files = StagedNames
        /\ output.files["index.html"] = dashboard_html
        /\ output.files["log/clan.json"] = json_dumps(RawClan)
        /\ output.files["log/warlog.json"] = json_dumps(RawWarlog)
        /\ output.files["static"] = PackageStatic
        /\ output.files["clan_logo.png"] =
              (IF paths.logo_path = "~/logo.png" THEN "/home/user/logo.png"
               ELSE "crtools/static/crtools-logo.png")
        /\ output.files["favicon.ico"] =
              (IF paths.favicon_path = "/srv/favicon.ico" THEN "/srv/favicon.ico"
               ELSE "crtools/static/crtools-favicon.ico")
        /\ output.files["log"] = "dir"
        /\ "stale.html" \notin DOMAIN output.files
        /\ output.mode = IF pre.exists THEN pre.mode ELSE "0700"

\* a successful run over the output of an earlier run
C7_Witness ==
    /\ Succeeded
    /\ pre = OldOutput
    /\ output # pre
    /\ CompleteTree(output)
    /\ Len(member_dash) > 0

ClanReturned == http.clan > 0 /\ raised.at # "get_clan"
WarlogReturned == http.warlog > 0 /\ raised.at # "get_warlog"

\* C6: get_clan and get_warlog send one GET each and return nothing when the
\* status is not 2xx or the body is no JSON; nothing of a response that is
\* not 2xx is logged or published.
C6_FetchFailsUnless2xx ==
    /\ http.clan <= 1
    /\ http.warlog <= 1
    /\ ClanReturned => (is_2xx(api.clan.status) /\ is_json(api.clan.body))
    /\ WarlogReturned => (is_2xx(api.warlog.status) /\ is_json(api.warlog.body))
    /\ "log/clan.json" \in DOMAIN tempdir.files => is_2xx(api.clan.status)
    /\ "log/warlog.json" \in DOMAIN tempdir.files => is_2xx(api.warlog.status)
    /\ output # pre => (is_2xx(api.clan.status) /\ is_2xx(api.warlog.status))

DerivedMemberKeys == {"warlog", "danger", "leadership"}

\* an object as the API sends it: no member and no participant is enriched
PristineClan(c) ==
    "memberList" \in DOMAIN c =>
        \A i \in DOMAIN c.memberList :
            /\ DOMAIN c.memberList[i] \cap DerivedMemberKeys = {}
            /\ c.memberList[i].role # "co-leader"

PristineWarlog(wl) ==
    \A i \in DOMAIN wl : \A j \in DOMAIN wl[i].participants :
        "status" \notin DOMAIN wl[i].participants[j]

LogsAreRaw(files) ==
    /\ "log/clan.json" \in DOMAIN files =>
          /\ files["log/clan.json"] = json_dumps(RawClan)
          /\ PristineClan(json_loads(files["log/clan.json"]))
    /\ "log/warlog.json" \in DOMAIN files =>
          /\ files["log/warlog.json"] = json_dumps(RawWarlog)
          /\ PristineWarlog(json_loads(files["log/warlog.json"]))

\* C8: each response is logged as it was fetched, before anything is derived
\* from it: when clan.json is written `clan` is the fetched object, when
\* warlog.json is written `warlog` is the fetched list, and the logged texts,
\* staged or published, stay those of the fetched objects whatever the
\* assembly loop does to `clan` and `warlog` afterwards.
C8_LogsWrittenBeforeTransformation ==
    /\ pc = "log_clan" => (clan = RawClan /\ PristineClan(clan))
    /\ pc = "log_warlog" => (warlog = RawWarlog /\ PristineWarlog(warlog))
    /\ LogsAreRaw(tempdir.files)
    /\ LogsAreRaw(output.files)

\* a successful run whose loop rewrote a role and marked a participant, and
\* whose published logs are those of the fetched objects
C8_Witness ==
    /\ Succeeded
    /\ clan # RawClan
    /\ ~PristineClan(clan)
    /\ ~PristineWarlog(warlog)
    /\ output.files["log/clan.json"] = json_dumps(RawClan)
    /\ output.files["log/warlog.json"] = json_dumps(RawWarlog)

\* the description step has completed
DescriptionResolved == pc = "get_warlog" \/ http.warlog > 0

\* the three values of the description
ExpectedDescription ==
    CASE paths.description_path = ""              -> RawClan.description
      [] paths.description_path = "~/desc.txt"    -> <<"text of ", "/home/user/desc.txt">>
      [] paths.description_path = "~/gone.txt"    ->
            <<"ERROR: File '", "/home/user/gone.txt", "' does not exist.">>
      [] paths.description_path = "/srv/none.txt" ->
            <<"ERROR: File '", "/srv/none.txt", "' does not exist.">>

\* C9 as claimed, on the runs whose clan request was answered 2xx with a clan
\* object: the description step never aborts the run, and gives the API's
\* description, the text of the file, or the message naming the missing path.
C9_DescriptionNeverAborts ==
    (is_2xx(api.clan.status) /\ is_json(api.clan.body) /\ "description" \in DOMAIN RawClan)
        => /\ raised.at # "description"
           /\ DescriptionResolved => clan_description = ExpectedDescription

\* C9 as amended: whenever the description step completes it gives the API's
\* description (no path), the text of the file (the expanded path is a
\* file), or the message naming the expanded missing path; a path that names
\* no file never aborts the run; the step aborts the run only if the fetched
\* object has no 'description' or if reading an existing file raises.
C9_DescriptionResolution ==
    /\ DescriptionResolved => clan_description = ExpectedDescription
    /\ raised.at = "description" =>
          \/ raised.exc = "KeyError" /\ "description" \notin DOMAIN clan
          \/ raised.exc = "OSError" /\ paths.description_path = "~/desc.txt"

\* a successful run with a description path that names no file: the page
\* published shows the message
C9_Witness ==
    /\ Succeeded
    /\ paths.description_path = "~/gone.txt"
    /\ CompleteTree(output)
    /\ output.files["index.html"].clan_description =
          <<"ERROR: File '", "/home/user/gone.txt", "' does not exist.">>

\* C10: each member the loop has processed has leadership true exactly when
\* its fetched role is leader or coLeader, and shows its fetched role with
\* coLeader written co-leader; no step changes the leadership flag of a
\* member already processed.
C10_LeadershipFromFetchedRole ==
    /\ [](\A i \in 1..Len(member_dash) :
            LET fetched == RawClan.memberList[i].role
            IN  /\ member_dash[i].tag = RawClan.memberList[i].tag
                /\ member_dash[i].leadership = (fetched \in {"leader", "coLeader"})
                /\ member_dash[i].role = (IF fetched = "coLeader" THEN "co-leader"
                                          ELSE fetched)
                /\ clan.memberList[i] = member_dash[i])
    /\ [][\A i \in 1..Len(member_dash) :
            member_dash'[i].leadership = member_dash[i].leadership]_vars

\* a successful run on a clan of a coLeader and a member
C10_Witness ==
    /\ Succeeded
    /\ Len(member_dash) = 2
    /\ RawClan.memberList[1].role = "coLeader"
    /\ member_dash[1].role = "co-leader"
    /\ member_dash[1].leadership
    /\ RawClan.memberList[2].role = "member"
    /\ ~member_dash[2].leadership

-----------------------------------------------------------------------------
(* Properties of the analyzer functions. *)

HasTag(war, tag) == \E j \in DOMAIN war.participants : war.participants[j].tag = tag

\* the status of the claim's cascade for the member `tag` in `war`
ExpectedStatus(tag, war) ==
    IF ~HasTag(war, tag) THEN "na"
    ELSE LET p == CHOOSE q \in Range(war.participants) : q.tag = tag
         IN  CASE p.collectionDayBattlesPlayed = 0 -> "na"
               [] p.collectionDayBattlesPlayed # 0 /\ p.battlesPlayed = 0 -> "bad"
               [] p.collectionDayBattlesPlayed \in {1, 2} /\ p.battlesPlayed # 0 -> "ok"
               [] OTHER -> "good"

IsParticipation(list, tag, wl) ==
    /\ Len(list) = Len(wl)
    /\ \A i \in 1..Len(wl) :
          /\ list[i].status = ExpectedStatus(tag, wl[i])
          /\ ~HasTag(wl[i], tag) => list[i] = [status |-> "na"]

\* C4: member_warlog returns one entry per war, in the order of the war log,
\* with the status of the cascade (na if absent, na if no collection-day
\* battle, bad if no battle, ok under 3 collection-day battles, good
\* otherwise); every member row of build_dashboard has such a warlog.
C4_OneStatusPerWar ==
    /\ (pc = "idle" /\ result # unbound)
          => IsParticipation(result.value, args.member_tag, args.warlog)
    /\ \A i \in 1..Len(member_dash) :
          IsParticipation(member_dash[i].warlog, member_dash[i].tag, warlog)

\* a call on two wars: in the first the member fought on battle day without
\* any collection-day battle, in the second it did not take part
C4_Witness ==
    /\ pc = "idle"
    /\ result # unbound
    /\ Len(result.value) = 2
    /\ HasTag(args.warlog[1], args.member_tag)
    /\ "battlesPlayed" \in DOMAIN result.value[1]
    /\ result.value[1].battlesPlayed = 1
    /\ result.value[1].collectionDayBattlesPlayed = 0
    /\ result.value[1].status = "na"
    /\ ~HasTag(args.warlog[2], args.member_tag)
    /\ result.value[2] = [status |-> "na"]

CountOf(list, s) == Cardinality({i \in DOMAIN list : list[i].status = s})

\* C5: member_danger is true exactly when there are more bad entries than
\* good ones, or no good entry and no donation.
C5_DangerRule ==
    result # unbound =>
        result.value = (\/ CountOf(args.member_warlog, "bad") > CountOf(args.member_warlog, "good")
                        \/ /\ CountOf(args.member_warlog, "good") = 0
                           /\ args.member.donations = 0)

\* three bad wars, one good war and 100 donations: danger
C5_Witness ==
    /\ result # unbound
    /\ args.member.donations = 100
    /\ CountOf(args.member_warlog, "bad") = 3
    /\ CountOf(args.member_warlog, "good") = 1
    /\ result.value = TRUE

====
